---- MODULE Spec2Model ----
(***************************************************************************)
(* Model of src/services/bookCollectionServices.ts: the reactive state     *)
(* (books, loading, loadingMessage), localStorage "books", and one         *)
(* invocation of reloadCollection at a time, with the user toggles         *)
(* switchFavorite / switchBookmark interleaved at every await.             *)
(*                                                                         *)
(* parallelMap (@/utilities/Parallel) is not part of the sources at hand;  *)
(* it is modelled from section 4.1 of the specification (the Mapper        *)
(* definitions).                                                           *)
(*                                                                         *)
(* One JavaScript task (a continuation that runs to its next await) is one *)
(* action.                                                                 *)
(***************************************************************************)
EXTENDS Integers, Sequences, FiniteSets, TLC

\* ------------------------------------------------------------------ bounds
MaxId == 2
MaxPages == 3
MaxRuns == 2
MaxToggles == 1
MaxInputs == 7
MaxLimit == 6

Ids == 1..MaxId
Names == {"a", "b"}

\* ------------------------------------------------------- values of the code
\* JavaScript null, as the value of Book.series and of an op's result.
null == "<null>"
\* The value of an async arrow function that returns nothing.
undefined == "<undefined>"
\* A result slot of the mapper that has not been written yet.
NoResult == <<>>
\* The mapper's failed Result for an op that rejected.
Rejected == "<rejected>"

\* Mutant of PageLimit: one more request in flight than line 83 allows.
PageLimitRaised == 5 + 1

\* src line 83 and line 108: the limit handed to parallelMap.
PageLimit == 5
SeriesLimit == 5

\* What loadSeries returns for a product page that parses: "" when the breadcrumb
\* holds no series link (here: product 1), else the trimmed series name.
SeriesOf(id) == IF id = 1 THEN "" ELSE "S"
\* What a page fetch can answer.
PageAnswers == {"OK", "NO_LOGIN", "PARSING_ERROR", "REJECT"}
\* What a classification fetch can answer.
SeriesAnswers == {"OK", "THROW"}

VARIABLES
    books,          \* state.books
    stored,         \* localStorage "books"
    loading,        \* state.loading
    loadingMessage, \* state.loadingMessage
    pc,             \* where reloadCollection is: idle, page1, pages, series
    outcome,        \* how the last invocation ended: none, running, Done, Failed, Threw
    originBooks,    \* the closure's originBooks
    pageCount,      \* the closure's pageCount
    remote,         \* the remote listing of this run: a sequence of pages
    mapper,         \* the parallelMap call in flight (or the last one)
    fetchLog,       \* the requests issued by this run
    lastFlags,      \* per id, the favorite and bookmark it had in the record set
                    \* persisted when this run began, as toggled since
    runs,           \* invocations of reloadCollection so far
    toggles,        \* effective or not, user toggles so far
    earlier         \* the closure of an invocation that was overtaken by the
                    \* next one while in flight (NoEarlier: there is none)

vars == <<books, stored, loading, loadingMessage, pc, outcome, originBooks,
          pageCount, remote, mapper, fetchLog, lastFlags, runs, toggles,
          earlier>>

\* --------------------------------------------------------------- helpers
IdsOf(bs) == {bs[i].id : i \in 1..Len(bs)}
Min(a, b) == IF a < b THEN a ELSE b

\* Array.prototype.find(b => b.id === id): the index of the first match, 0 for
\* undefined.
FindIndex(bs, id) ==
    IF \E i \in 1..Len(bs) : bs[i].id = id
    THEN CHOOSE i \in 1..Len(bs) :
            bs[i].id = id /\ \A j \in 1..(i - 1) : bs[j].id # id
    ELSE 0

\* The ascending sequence of the elements of a finite set of integers.
RECURSIVE SortedSeq(_)
SortedSeq(S) ==
    IF S = {} THEN <<>>
    ELSE LET m == CHOOSE x \in S : \A y \in S : x <= y
         IN <<m>> \o SortedSeq(S \ {m})

\* ------------------------------------------------------------- messages
NoMessage == [kind |-> "null", k |-> 0, n |-> 0, error |-> FALSE]
NoLoginMessage == [kind |-> "NO_LOGIN", k |-> 0, n |-> 0, error |-> TRUE]
ParsingErrorMessage == [kind |-> "PARSING_ERROR", k |-> 0, n |-> 0, error |-> TRUE]
PartialFailureMessage == [kind |-> "PARTIAL", k |-> 0, n |-> 0, error |-> TRUE]
\* Mutant of PageMessage: the count is one ahead of the pages done.
PageMessageAhead(k, n) == [kind |-> "pages", k |-> k + 1, n |-> n, error |-> FALSE]
PageMessage(k, n) == [kind |-> "pages", k |-> k, n |-> n, error |-> FALSE]
SeriesMessage(k, n) == [kind |-> "series", k |-> k, n |-> n, error |-> FALSE]

\* ------------------------------------------------- EntityMerge (lines 55-63)
\* Mutant of OldSeries: oldBook?.series || null, which also turns "" into null.
OldSeriesOr(origin, i) ==
    LET v == IF i = 0 THEN undefined ELSE origin[i].series
    IN IF v \in {null, undefined, ""} THEN null ELSE v

\* oldBook?.series ?? null
OldSeries(origin, i) ==
    LET v == IF i = 0 THEN undefined ELSE origin[i].series
    IN IF v \in {null, undefined} THEN null ELSE v

\* The arrow function of recordBookList's map: the fetched book merged with
\* originBooks.find(old => old.id === book.id).
MergeBook(book, origin) ==
    LET i == FindIndex(origin, book.id)
    IN [id |-> book.id,
        name |-> book.name,
        series |-> OldSeries(origin, i),
        favorite |-> IF i = 0 THEN FALSE ELSE origin[i].favorite,
        bookmark |-> IF i = 0 THEN FALSE ELSE origin[i].bookmark]

\* recordBookList: every fetched book merged and pushed onto state.books.
RecordBookList(bs, fetched, origin) ==
    bs \o [i \in 1..Len(fetched) |-> MergeBook(fetched[i], origin)]

\* Mutant of EmptiedBooks: line 34 left out, the run appends to the old array.
KeptBooks == books

\* line 34: state.books = []
EmptiedBooks == <<>>

\* Mutant of PagesNeedLoad: length pageCount - 2, the last page is never asked.
PagesNeedLoadShort(count) == [i \in 1..(count - 2) |-> i + 1]

\* line 74: Array.from({ length: pageCount - 1 }, (_, i) => i + 2)
PagesNeedLoad(count) == [i \in 1..(count - 1) |-> i + 1]

\* Mutant of AnyPageFailed: the results of the page pass are never looked at.
NoPageFailed(results) == FALSE

\* Mutant of AnyPageFailed: every instead of some.
EveryPageFailed(results) == \A i \in 1..Len(results) : results[i] # null

\* line 91: loadPageResults.some(error => error !== null)
AnyPageFailed(results) == \E i \in 1..Len(results) : results[i] # null

\* Mutant of BookNeedLoadSeries: filter(book => !book.series), which also takes
\* the books whose series is "".
BookNeedLoadSeriesFalsy(bs) ==
    SortedSeq({i \in 1..Len(bs) : bs[i].series \in {null, ""}})

\* line 99: state.books.filter(book => book.series === null), as the indices of
\* the book objects it holds.
BookNeedLoadSeries(bs) == SortedSeq({i \in 1..Len(bs) : bs[i].series = null})

\* Mutant of FlipFavorite: the toggle writes both flags.
FlipFavoriteBoth(b) == [b EXCEPT !.favorite = ~b.favorite, !.bookmark = ~b.bookmark]

\* Mutant of WriteSeries: the awaited series is dropped, not assigned.
WriteSeriesNowhere(bs, at, series) == bs

\* line 105: book.series = <the awaited loadSeries(book.id)>, book being the
\* object at index `at` of state.books.
WriteSeries(bs, at, series) == [bs EXCEPT ![at].series = series]

\* switchFavorite's and switchBookmark's body, on a found book.
FlipFavorite(b) == [b EXCEPT !.favorite = ~b.favorite]
FlipBookmark(b) == [b EXCEPT !.bookmark = ~b.bookmark]

\* ----------------------------------------- BoundedConcurrencyMapper (4.1)
\* The call: the first `limit` inputs are started at once.
MapperStart(inputs, limit, pass) ==
    [inputs |-> inputs,
     limit |-> limit,
     pass |-> pass,
     st |-> [i \in 1..Len(inputs) |-> IF i <= limit THEN "inflight" ELSE "unstarted"],
     results |-> [i \in 1..Len(inputs) |-> NoResult],
     done |-> 0,
     progress |-> <<>>]

\* Mutant of MapperComplete: the result is pushed in completion order, and
\* onProgress is told the count before this input.
MapperCompletePush(m, i, r) ==
    LET waiting == {j \in 1..Len(m.inputs) : m.st[j] = "unstarted"}
        next == IF waiting = {} THEN 0
                ELSE CHOOSE j \in waiting : \A k \in waiting : j <= k
    IN [m EXCEPT !.st = [j \in 1..Len(m.inputs) |->
                            IF j = i THEN "done"
                            ELSE IF j = next THEN "inflight" ELSE m.st[j]],
                 !.results[m.done + 1] = r,
                 !.done = m.done + 1,
                 !.progress = Append(m.progress, m.done + 1)]

\* Mutant of MapperComplete: onProgress is called for a fulfilled op only.
MapperCompleteQuietFailure(m, i, r) ==
    LET waiting == {j \in 1..Len(m.inputs) : m.st[j] = "unstarted"}
        next == IF waiting = {} THEN 0
                ELSE CHOOSE j \in waiting : \A k \in waiting : j <= k
    IN [m EXCEPT !.st = [j \in 1..Len(m.inputs) |->
                            IF j = i THEN "done"
                            ELSE IF j = next THEN "inflight" ELSE m.st[j]],
                 !.results[i] = r,
                 !.done = m.done + 1,
                 !.progress = IF r = <<Rejected>> THEN m.progress
                              ELSE Append(m.progress, m.done + 1)]

\* Input i's op has settled with r: the result is recorded at i, onProgress gets
\* the new count, and the next unstarted input, if any, is started.
MapperComplete(m, i, r) ==
    LET waiting == {j \in 1..Len(m.inputs) : m.st[j] = "unstarted"}
        next == IF waiting = {} THEN 0
                ELSE CHOOSE j \in waiting : \A k \in waiting : j <= k
    IN [m EXCEPT !.st = [j \in 1..Len(m.inputs) |->
                            IF j = i THEN "done"
                            ELSE IF j = next THEN "inflight" ELSE m.st[j]],
                 !.results[i] = r,
                 !.done = m.done + 1,
                 !.progress = Append(m.progress, m.done + 1)]

MapperFinished(m) == \A i \in 1..Len(m.inputs) : m.st[i] = "done"
InFlight(m) == {i \in 1..Len(m.inputs) : m.st[i] = "inflight"}
Unstarted(m) == {i \in 1..Len(m.inputs) : m.st[i] = "unstarted"}
NoMapper == MapperStart(<<>>, 1, "none")

\* --------------------------------------------------------- the request log
Pending == "PENDING"
LogStarted(log, kind, m) == log \cup {<<kind, m.inputs[i], Pending>> : i \in InFlight(m)}
LogAnswered(log, kind, arg, answer, m) ==
    LogStarted((log \ {<<kind, arg, Pending>>}) \cup {<<kind, arg, answer>>}, kind, m)

\* No invocation has been overtaken. An overtaken invocation keeps its own
\* originBooks, pageCount and parallelMap call, and its position pc; target says
\* which array the books of its series pass are in: state.books, or the array
\* that was state.books when line 99 ran and is the next invocation's originBooks.
NoEarlier ==
    [pc |-> "none", originBooks |-> <<>>, pageCount |-> 0, mapper |-> NoMapper,
     target |-> "books"]

\* ------------------------------------------------------- the environment
Book(id, name, series, favorite, bookmark) ==
    [id |-> id, name |-> name, series |-> series,
     favorite |-> favorite, bookmark |-> bookmark]

\* What localStorage "books" may hold when the module is loaded (line 16).
InitBooks ==
    { <<>>,
      <<Book(1, "a", "S", TRUE, FALSE)>>,
      <<Book(2, "a", "", FALSE, TRUE), Book(1, "a", null, TRUE, FALSE)>> }

\* A remote listing: `count` pages; id i is on page place[i] (0: not listed), each
\* id on one page at most; every row carries the name `name`.
Listing(count, place, name) ==
    [p \in 1..count |->
        LET ids == SortedSeq({i \in Ids : place[i] = p})
        IN [k \in 1..Len(ids) |-> [id |-> ids[k], name |-> name]]]

Listings ==
    { Listing(count, place, name) :
        <<count, place, name>> \in
            UNION { {c} \X [Ids -> 0..c] \X Names : c \in 1..MaxPages } }

ListedIds(listing, pages) ==
    UNION { IdsOf(listing[p]) : p \in pages \cap (1..Len(listing)) }

FlagsOf(bs) ==
    [i \in Ids |->
        LET k == FindIndex(bs, i)
        IN IF k = 0 THEN [favorite |-> FALSE, bookmark |-> FALSE]
           ELSE [favorite |-> bs[k].favorite, bookmark |-> bs[k].bookmark]]

\* ------------------------------------------------------------------ Init
Init ==
    /\ books \in InitBooks
    /\ stored = books
    /\ loading = FALSE
    /\ loadingMessage = NoMessage
    /\ pc = "idle"
    /\ outcome = "none"
    /\ originBooks = <<>>
    /\ pageCount = 0
    /\ remote = <<>>
    /\ mapper = NoMapper
    /\ fetchLog = {}
    /\ lastFlags = FlagsOf(books)
    /\ runs = 0
    /\ toggles = 0
    /\ earlier = NoEarlier

\* ------------------------------------------------------ reloadCollection
\* Lines 32-36, up to the await of page 1.
StartRun(listing) ==
    /\ pc = "idle"
    /\ runs < MaxRuns
    /\ runs' = runs + 1
    /\ loading' = TRUE
    /\ originBooks' = books
    /\ books' = EmptiedBooks
    /\ remote' = listing
    /\ pc' = "page1"
    /\ outcome' = "running"
    /\ pageCount' = 0
    /\ mapper' = NoMapper
    /\ fetchLog' = {<<"page", 1, Pending>>}
    /\ lastFlags' = FlagsOf(stored)
    /\ UNCHANGED <<stored, loadingMessage, toggles, earlier>>

\* Mutant of Complete: line 115 left out, loading stays true.
CompleteStillLoading(bs, m, log) ==
    /\ books' = bs
    /\ mapper' = m
    /\ fetchLog' = log
    /\ loadingMessage' = NoMessage
    /\ pc' = "idle"
    /\ outcome' = "Done"
    /\ UNCHANGED loading

\* Lines 115-116: the end of a run whose two passes are over.
Complete(bs, m, log) ==
    /\ books' = bs
    /\ mapper' = m
    /\ fetchLog' = log
    /\ loading' = FALSE
    /\ loadingMessage' = NoMessage
    /\ pc' = "idle"
    /\ outcome' = "Done"

\* Lines 91-114, from the page pass's results to the await of the series pass.
\* msg is the loadingMessage the page pass left.
AfterPages(bs, m, log, msg) ==
    IF AnyPageFailed(m.results)
    THEN /\ books' = bs
         /\ mapper' = m
         /\ fetchLog' = log
         /\ loadingMessage' = PartialFailureMessage
         /\ pc' = "idle"
         /\ outcome' = "Failed"
         /\ UNCHANGED loading
    ELSE LET m2 == MapperStart(BookNeedLoadSeries(bs), SeriesLimit, "series")
         IN IF MapperFinished(m2)
            THEN Complete(bs, m2, log)
            ELSE /\ books' = bs
                 /\ mapper' = m2
                 /\ fetchLog' = LogStarted(log, "series", m2)
                 /\ loadingMessage' = msg
                 /\ pc' = "series"
                 /\ UNCHANGED <<loading, outcome>>

\* Lines 36-89: page 1 has answered.
Page1Done(answer) ==
    /\ pc = "page1"
    /\ LET log == (fetchLog \ {<<"page", 1, Pending>>}) \cup {<<"page", 1, answer>>}
       IN CASE answer = "NO_LOGIN" ->
                 /\ loadingMessage' = NoLoginMessage
                 /\ pc' = "idle"
                 /\ outcome' = "Failed"
                 /\ fetchLog' = log
                 /\ UNCHANGED <<books, stored, loading, pageCount, mapper>>
            [] answer = "PARSING_ERROR" ->
                 /\ loadingMessage' = ParsingErrorMessage
                 /\ pc' = "idle"
                 /\ outcome' = "Failed"
                 /\ fetchLog' = log
                 /\ UNCHANGED <<books, stored, loading, pageCount, mapper>>
            [] answer = "REJECT" ->
                 /\ pc' = "idle"
                 /\ outcome' = "Threw"
                 /\ fetchLog' = log
                 /\ UNCHANGED <<books, stored, loading, loadingMessage, pageCount, mapper>>
            [] answer = "OK" ->
                 LET count == Len(remote)
                     bs == RecordBookList(books, remote[1], originBooks)
                     m == MapperStart(PagesNeedLoad(count), PageLimit, "pages")
                 IN /\ pageCount' = count
                    /\ stored' = bs
                    /\ IF MapperFinished(m)
                       THEN AfterPages(bs, m, log, PageMessage(1, count))
                       ELSE /\ books' = bs
                            /\ mapper' = m
                            /\ fetchLog' = LogStarted(log, "page", m)
                            /\ loadingMessage' = PageMessage(1, count)
                            /\ pc' = "pages"
                            /\ UNCHANGED <<loading, outcome>>
    /\ UNCHANGED <<originBooks, remote, lastFlags, runs, toggles, earlier>>

\* Lines 77-88: the op of input i of the page pass has settled, and the mapper's
\* bookkeeping with it; after the last one, lines 91-114.
PageDone(i, answer) ==
    /\ pc = "pages"
    /\ i \in InFlight(mapper)
    /\ LET page == mapper.inputs[i]
           ok == answer = "OK"
           bs == IF ok THEN RecordBookList(books, remote[page], originBooks) ELSE books
           r == IF ok THEN null ELSE IF answer = "REJECT" THEN Rejected ELSE answer
           m == MapperComplete(mapper, i, r)
           log == LogAnswered(fetchLog, "page", page, answer, m)
           msg == PageMessage(m.done + 1, pageCount)
       IN /\ stored' = IF ok THEN bs ELSE stored
          /\ IF MapperFinished(m)
             THEN AfterPages(bs, m, log, msg)
             ELSE /\ books' = bs
                  /\ mapper' = m
                  /\ fetchLog' = log
                  /\ loadingMessage' = msg
                  /\ UNCHANGED <<pc, loading, outcome>>
    /\ UNCHANGED <<originBooks, pageCount, remote, lastFlags, runs, toggles,
                   earlier>>

\* Lines 104-113: the op of input i of the series pass has settled; after the last
\* one, lines 115-116.
SeriesDone(i, answer) ==
    /\ pc = "series"
    /\ i \in InFlight(mapper)
    /\ LET at == mapper.inputs[i]
           ok == answer = "OK"
           bs == IF ok THEN WriteSeries(books, at, SeriesOf(books[at].id))
                 ELSE books
           m == MapperComplete(mapper, i, IF ok THEN undefined ELSE Rejected)
           log == LogAnswered(fetchLog, "series", at, answer, m)
       IN /\ stored' = IF ok THEN bs ELSE stored
          /\ IF MapperFinished(m)
             THEN Complete(bs, m, log)
             ELSE /\ books' = bs
                  /\ mapper' = m
                  /\ fetchLog' = log
                  /\ loadingMessage' = SeriesMessage(m.done, Len(m.inputs))
                  /\ UNCHANGED <<pc, loading, outcome>>
    /\ UNCHANGED <<originBooks, pageCount, remote, lastFlags, runs, toggles,
                   earlier>>

\* ------------------------------------------------------------ the toggles
\* Lines 189-194.
SwitchFavorite(bookId) ==
    /\ toggles < MaxToggles
    /\ toggles' = toggles + 1
    /\ LET found == FindIndex(books, bookId)
       IN IF found = 0
          THEN UNCHANGED <<books, stored, lastFlags>>
          ELSE /\ books' = [books EXCEPT ![found] = FlipFavorite(@)]
               /\ stored' = books'
               /\ lastFlags' = [lastFlags EXCEPT ![bookId].favorite = ~@]
    /\ UNCHANGED <<loading, loadingMessage, pc, outcome, originBooks, pageCount,
                   remote, mapper, fetchLog, runs, earlier>>

\* Lines 196-201.
SwitchBookmark(bookId) ==
    /\ toggles < MaxToggles
    /\ toggles' = toggles + 1
    /\ LET found == FindIndex(books, bookId)
       IN IF found = 0
          THEN UNCHANGED <<books, stored, lastFlags>>
          ELSE /\ books' = [books EXCEPT ![found] = FlipBookmark(@)]
               /\ stored' = books'
               /\ lastFlags' = [lastFlags EXCEPT ![bookId].bookmark = ~@]
    /\ UNCHANGED <<loading, loadingMessage, pc, outcome, originBooks, pageCount,
                   remote, mapper, fetchLog, runs, earlier>>

Next ==
    \/ \E listing \in Listings : StartRun(listing)
    \/ \E answer \in PageAnswers : Page1Done(answer)
    \/ \E i \in 1..MaxPages, answer \in PageAnswers : PageDone(i, answer)
    \/ \E i \in 1..MaxId, answer \in SeriesAnswers : SeriesDone(i, answer)
    \/ \E bookId \in Ids : SwitchFavorite(bookId)
    \/ \E bookId \in Ids : SwitchBookmark(bookId)

Spec == Init /\ [][Next]_vars

\* ------------------------------------------- the mapper on its own (4.1)
\* A parallelMap call over n inputs, as made at line 75 (the pages 2..n+1, limit
\* PageLimit), at line 102 (limit SeriesLimit), or with any limit; the op answers
\* its input on success and rejects on failure.
MapCalls ==
    { MapperStart(PagesNeedLoad(n + 1), PageLimit, "pages") : n \in 0..MaxInputs }
    \cup { MapperStart([i \in 1..n |-> i], SeriesLimit, "series") : n \in 0..MaxInputs }
    \cup { MapperStart([i \in 1..n |-> i], limit, "op") :
             <<n, limit>> \in (0..MaxInputs) \X (1..MaxLimit) }

OpAnswers == {"OK", "FAIL"}
OpResult(input, answer) == IF answer = "OK" THEN <<"ok", input>> ELSE <<Rejected>>

MapInit ==
    /\ mapper \in MapCalls
    /\ fetchLog = LogStarted({}, mapper.pass, mapper)
    /\ books = <<>>
    /\ stored = <<>>
    /\ loading = FALSE
    /\ loadingMessage = NoMessage
    /\ pc = "map"
    /\ outcome = "none"
    /\ originBooks = <<>>
    /\ pageCount = 0
    /\ remote = <<>>
    /\ lastFlags = FlagsOf(<<>>)
    /\ runs = 0
    /\ toggles = 0
    /\ earlier = NoEarlier

MapOpDone(i, answer) ==
    /\ pc = "map"
    /\ i \in InFlight(mapper)
    /\ mapper' = MapperComplete(mapper, i, OpResult(mapper.inputs[i], answer))
    /\ fetchLog' = LogAnswered(fetchLog, mapper.pass, mapper.inputs[i], answer, mapper')
    /\ UNCHANGED <<books, stored, loading, loadingMessage, pc, outcome, originBooks,
                   pageCount, remote, lastFlags, runs, toggles, earlier>>

MapNext == \E i \in 1..MaxInputs, answer \in OpAnswers : MapOpDone(i, answer)

SpecMap == MapInit /\ [][MapNext]_vars

\* --------------------------------------- invocations that overlap (lines 31-117)
\* The overtaken invocation has returned or thrown.
EarlierOver(e) == [e EXCEPT !.pc = "over", !.pageCount = 0, !.mapper = NoMapper]

\* Lines 32-36 run while the previous invocation is still awaiting: the closure in
\* flight becomes the earlier one, its requests stay pending.
Reinvoke ==
    /\ pc \in {"page1", "pages", "series"}
    /\ earlier = NoEarlier
    /\ runs < MaxRuns
    /\ runs' = runs + 1
    /\ earlier' = [pc |-> pc, originBooks |-> originBooks, pageCount |-> pageCount,
                   mapper |-> mapper,
                   target |-> IF pc = "series" THEN "origin" ELSE "books"]
    /\ loading' = TRUE
    /\ originBooks' = books
    /\ books' = EmptiedBooks
    /\ pc' = "page1"
    /\ outcome' = "running"
    /\ pageCount' = 0
    /\ mapper' = NoMapper
    /\ fetchLog' = {<<"page", 1, Pending>>}
    /\ lastFlags' = FlagsOf(stored)
    /\ UNCHANGED <<stored, loadingMessage, remote, toggles>>

\* Lines 91-117 of the overtaken invocation.
EarlierAfterPages(bs, m, msg) ==
    IF AnyPageFailed(m.results)
    THEN /\ books' = bs
         /\ loadingMessage' = PartialFailureMessage
         /\ earlier' = EarlierOver(earlier)
         /\ UNCHANGED loading
    ELSE LET m2 == MapperStart(BookNeedLoadSeries(bs), SeriesLimit, "series")
         IN IF MapperFinished(m2)
            THEN /\ books' = bs
                 /\ loading' = FALSE
                 /\ loadingMessage' = NoMessage
                 /\ earlier' = EarlierOver(earlier)
            ELSE /\ books' = bs
                 /\ loadingMessage' = msg
                 /\ earlier' = [earlier EXCEPT !.pc = "series", !.mapper = m2,
                                               !.target = "books"]
                 /\ UNCHANGED loading

\* Lines 36-89 of the overtaken invocation: its page 1 has answered; its rows are
\* merged with its own originBooks and pushed onto the state.books of now.
EarlierPage1Done(answer) ==
    /\ earlier.pc = "page1"
    /\ CASE answer = "NO_LOGIN" ->
              /\ loadingMessage' = NoLoginMessage
              /\ earlier' = EarlierOver(earlier)
              /\ UNCHANGED <<books, stored, loading>>
         [] answer = "PARSING_ERROR" ->
              /\ loadingMessage' = ParsingErrorMessage
              /\ earlier' = EarlierOver(earlier)
              /\ UNCHANGED <<books, stored, loading>>
         [] answer = "REJECT" ->
              /\ earlier' = EarlierOver(earlier)
              /\ UNCHANGED <<books, stored, loading, loadingMessage>>
         [] answer = "OK" ->
              LET count == Len(remote)
                  bs == RecordBookList(books, remote[1], earlier.originBooks)
                  m == MapperStart(PagesNeedLoad(count), PageLimit, "pages")
              IN /\ stored' = bs
                 /\ IF MapperFinished(m)
                    THEN EarlierAfterPages(bs, m, PageMessage(1, count))
                    ELSE /\ books' = bs
                         /\ loadingMessage' = PageMessage(1, count)
                         /\ earlier' = [earlier EXCEPT !.pc = "pages",
                                                       !.pageCount = count,
                                                       !.mapper = m]
                         /\ UNCHANGED loading
    /\ UNCHANGED <<pc, outcome, originBooks, pageCount, remote, mapper, fetchLog,
                   lastFlags, runs, toggles>>

\* Lines 77-88 of the overtaken invocation.
EarlierPageDone(i, answer) ==
    /\ earlier.pc = "pages"
    /\ i \in InFlight(earlier.mapper)
    /\ LET page == earlier.mapper.inputs[i]
           ok == answer = "OK"
           bs == IF ok THEN RecordBookList(books, remote[page], earlier.originBooks)
                 ELSE books
           r == IF ok THEN null ELSE IF answer = "REJECT" THEN Rejected ELSE answer
           m == MapperComplete(earlier.mapper, i, r)
           msg == PageMessage(m.done + 1, earlier.pageCount)
       IN /\ stored' = IF ok THEN bs ELSE stored
          /\ IF MapperFinished(m)
             THEN EarlierAfterPages(bs, m, msg)
             ELSE /\ books' = bs
                  /\ loadingMessage' = msg
                  /\ earlier' = [earlier EXCEPT !.mapper = m]
                  /\ UNCHANGED loading
    /\ UNCHANGED <<pc, outcome, originBooks, pageCount, remote, mapper, fetchLog,
                   lastFlags, runs, toggles>>

\* Lines 104-113 of the overtaken invocation: book is the object line 99 picked,
\* in state.books or in what is now the next invocation's originBooks; saveBooks
\* writes the state.books of now.
EarlierSeriesDone(i, answer) ==
    /\ earlier.pc = "series"
    /\ i \in InFlight(earlier.mapper)
    /\ LET at == earlier.mapper.inputs[i]
           ok == answer = "OK"
           inBooks == earlier.target = "books"
           bs == IF ok /\ inBooks
                 THEN WriteSeries(books, at, SeriesOf(books[at].id))
                 ELSE books
           m == MapperComplete(earlier.mapper, i, IF ok THEN undefined ELSE Rejected)
       IN /\ books' = bs
          /\ originBooks' = IF ok /\ ~inBooks
                            THEN WriteSeries(originBooks, at,
                                             SeriesOf(originBooks[at].id))
                            ELSE originBooks
          /\ stored' = IF ok THEN bs ELSE stored
          /\ IF MapperFinished(m)
             THEN /\ loading' = FALSE
                  /\ loadingMessage' = NoMessage
                  /\ earlier' = EarlierOver(earlier)
             ELSE /\ loadingMessage' = SeriesMessage(m.done, Len(m.inputs))
                  /\ earlier' = [earlier EXCEPT !.mapper = m]
                  /\ UNCHANGED loading
    /\ UNCHANGED <<pc, outcome, pageCount, remote, mapper, fetchLog, lastFlags,
                   runs, toggles>>

OverlapNext ==
    \/ \E listing \in Listings : StartRun(listing)
    \/ Reinvoke
    \/ \E answer \in PageAnswers : Page1Done(answer)
    \/ \E i \in 1..MaxPages, answer \in PageAnswers : PageDone(i, answer)
    \/ \E i \in 1..MaxId, answer \in SeriesAnswers : SeriesDone(i, answer)
    \/ \E answer \in PageAnswers : EarlierPage1Done(answer)
    \/ \E i \in 1..MaxPages, answer \in PageAnswers : EarlierPageDone(i, answer)
    \/ \E i \in 1..MaxId, answer \in SeriesAnswers : EarlierSeriesDone(i, answer)

SpecOverlap == Init /\ [][OverlapNext]_vars

\* ================================================================ claims
Ended == pc = "idle" /\ outcome \in {"Done", "Failed", "Threw"}
Answered(kind, arg, answer) == <<kind, arg, answer>> \in fetchLog
Page1Answer(answer) == Answered("page", 1, answer)
NoDuplicateIds(bs) == \A i, j \in 1..Len(bs) : bs[i].id = bs[j].id => i = j
Flags(b) == [favorite |-> b.favorite, bookmark |-> b.bookmark]

\* C1: through every sequence of runs and toggles, failed runs and their re-runs
\* included, an entity of the record set carries the favorite and bookmark its id
\* last had in the record set (as persisted when the run began, and as toggled
\* since): a fetch-merge never changes them.
C1_FlagsSurviveResync ==
    \A i \in 1..Len(books) : Flags(books[i]) = lastFlags[books[i].id]

\* C2: a run whose page 1 answered NO_LOGIN has ended Failed with the
\* not-authenticated message, has fetched nothing but page 1, and has left the
\* record set as it was before the run.
C2_NoLoginLeavesRecordSet ==
    Page1Answer("NO_LOGIN") =>
        /\ pc = "idle"
        /\ outcome = "Failed"
        /\ loadingMessage = NoLoginMessage
        /\ fetchLog = {<<"page", 1, "NO_LOGIN">>}
        /\ books = originBooks

\* The pages of 2..pageCount that have answered, and those that answered OK.
PagesAnswered == {p \in 2..pageCount : \E a \in PageAnswers : Answered("page", p, a)}
PagesOk == {p \in 2..pageCount : Answered("page", p, "OK")}
PagesFailed == PagesAnswered \ PagesOk

\* Entity b is what the merge of a row of page p with originBooks gives, but for
\* the two flags, which a toggle may have flipped since.
MergedFrom(b, p) ==
    \E k \in 1..Len(remote[p]) :
        LET m == MergeBook(remote[p][k], originBooks)
        IN b.id = m.id /\ b.name = m.name /\ b.series = m.series
           /\ (toggles = 0 => Flags(b) = Flags(m))

\* C3: page 1 succeeded and some page of 2..P failed: no classification is ever
\* fetched; and once every page has answered the run has ended Failed with the
\* partial-failure message, every page of 2..P was fetched, and the record set,
\* persisted, holds exactly the merged rows of page 1 and of the pages that
\* succeeded.
C3_PartialFailureKeepsProgress ==
    (Page1Answer("OK") /\ PagesFailed # {}) =>
        /\ pc \in {"pages", "idle"}
        /\ \A e \in fetchLog : e[1] = "page"
        /\ pc = "idle" =>
            /\ outcome = "Failed"
            /\ loadingMessage = PartialFailureMessage
            /\ PagesAnswered = 2..pageCount
            /\ IdsOf(books) = ListedIds(remote, {1} \cup PagesOk)
            /\ NoDuplicateIds(books)
            /\ \A i \in 1..Len(books) :
                  \E p \in {1} \cup PagesOk : MergedFrom(books[i], p)
            /\ stored = books

C3_Witness ==
    /\ pc = "idle"
    /\ pageCount = 3
    /\ Answered("page", 2, "PARSING_ERROR")
    /\ Answered("page", 3, "OK")
    /\ Len(books) = 2
    /\ originBooks # <<>>

\* C4: once the listing stage of a run is Done, the ids of the record set are the
\* ids the pages 1..P delivered: no dropped id stays, no listed id is missing.
ListingDone == pc = "series" \/ (pc = "idle" /\ outcome = "Done")
C4_ListingIsAuthoritative ==
    ListingDone => IdsOf(books) = ListedIds(remote, 1..Len(remote))

C4_Witness ==
    /\ pc = "idle"
    /\ outcome = "Done"
    /\ \E id \in IdsOf(originBooks) : id \notin IdsOf(books)
    /\ \E id \in IdsOf(books) : id \notin IdsOf(originBooks)

C6_DoneMeansEnriched ==
    (pc = "idle" /\ outcome = "Done") =>
        \A i \in 1..Len(books) : books[i].series # null

\* C7: the merge of a fetched row with the previous entity of its id takes id and
\* name from the row and series, favorite and bookmark from the previous entity
\* (an empty-string series stays the empty string); with no previous entity they
\* are null, false and false.
MergeContract(row, origin) ==
    LET m == MergeBook(row, origin)
        previous == {origin[i] : i \in {j \in 1..Len(origin) : origin[j].id = row.id}}
    IN /\ m.id = row.id
       /\ m.name = row.name
       /\ \A old \in previous :
             /\ m.series = old.series
             /\ m.favorite = old.favorite
             /\ m.bookmark = old.bookmark
       /\ previous = {} =>
             m.series = null /\ m.favorite = FALSE /\ m.bookmark = FALSE

C7_MergeContract ==
    \A p \in 1..Len(remote) : \A k \in 1..Len(remote[p]) :
        MergeContract(remote[p][k], originBooks)

C7_Witness ==
    \E i \in 1..Len(books), j \in 1..Len(originBooks) :
        /\ books[i].id = originBooks[j].id
        /\ originBooks[j].series = ""
        /\ originBooks[j].bookmark
        /\ books[i].name # originBooks[j].name
        /\ books[i] = MergeBook([id |-> books[i].id, name |-> books[i].name], originBooks)

\* C8: the invocations started and not completed are never more than the limit
\* (5 at both call sites of reloadCollection); inputs are started in input order,
\* and a completion starts the next unstarted input, so that min(limit, inputs
\* not completed) are outstanding at every instant.
C8_BoundedOutstanding ==
    LET out == Cardinality(InFlight(mapper))
        remaining == Cardinality(InFlight(mapper) \cup Unstarted(mapper))
    IN /\ out <= mapper.limit
       /\ out = Min(mapper.limit, remaining)
       /\ mapper.pass \in {"pages", "series"} => out <= 5
       /\ \A i, j \in 1..Len(mapper.inputs) :
             (i < j /\ mapper.st[i] = "unstarted") => mapper.st[j] = "unstarted"

C8_Witness ==
    /\ mapper.pass = "pages"
    /\ mapper.done >= 1
    /\ Cardinality(InFlight(mapper)) = 5
    /\ Unstarted(mapper) # {}

\* C9: the mapper's output has one slot per input, and the slot of a completed
\* input holds the outcome of that input's own op, fulfilled or failed, whatever
\* the completion order; a failed op stops no sibling: while inputs are unstarted
\* some op is in flight.
C9_OutputInInputOrder ==
    /\ Len(mapper.results) = Len(mapper.inputs)
    /\ \A i \in 1..Len(mapper.inputs) :
          IF mapper.st[i] = "done"
          THEN \E a \in OpAnswers :
                  /\ Answered(mapper.pass, mapper.inputs[i], a)
                  /\ mapper.results[i] = OpResult(mapper.inputs[i], a)
          ELSE mapper.results[i] = NoResult
    /\ InFlight(mapper) = {} => MapperFinished(mapper)

C9_Witness ==
    /\ Len(mapper.inputs) >= 3
    /\ mapper.limit = 2
    /\ mapper.st[1] = "inflight"
    /\ mapper.results[2] = <<Rejected>>
    /\ mapper.results[3] = OpResult(mapper.inputs[3], "OK")

\* C10: onProgress has been called with 1, 2, ..., k in that order, where k is
\* the number of item results recorded so far; k is the number of inputs when the
\* run is over, and a run over no input is over at once with an empty result and
\* no call.
C10_ProgressCounts ==
    LET recorded == {i \in 1..Len(mapper.inputs) : mapper.results[i] # NoResult}
    IN /\ mapper.progress = [k \in 1..Len(mapper.progress) |-> k]
       /\ Len(mapper.progress) = Cardinality(recorded)
       /\ MapperFinished(mapper) => Len(mapper.progress) = Len(mapper.inputs)
       /\ Len(mapper.inputs) = 0 =>
             MapperFinished(mapper) /\ mapper.results = <<>> /\ mapper.progress = <<>>

C10_Witness ==
    /\ Len(mapper.inputs) = 3
    /\ mapper.limit = 2
    /\ MapperFinished(mapper)
    /\ mapper.progress = <<1, 2, 3>>
    /\ mapper.results[2] = <<Rejected>>

\* C11: a classification fetch is only ever issued in a run whose pages 1..P have
\* all answered, and all answered OK: the enrichment stage starts after the
\* listing stage is over, and not at all when the listing stage ended Failed.
SeriesFetches == {e \in fetchLog : e[1] = "series"}
C11_EnrichmentAfterListing ==
    SeriesFetches # {} =>
        /\ Page1Answer("OK")
        /\ pageCount = Len(remote)
        /\ \A p \in 2..pageCount : Answered("page", p, "OK")

C11_Witness ==
    /\ pc = "series"
    /\ pageCount = 3
    /\ \E e \in SeriesFetches : e[3] = Pending
    /\ Len(books) = 2

\* C12: a run that has terminated has left one of two shapes: on success no
\* message and loading false; on failure a message with the error flag.
C12_TerminalShapes ==
    Ended =>
        IF outcome = "Done"
        THEN loadingMessage = NoMessage /\ ~loading
        ELSE loadingMessage # NoMessage /\ loadingMessage.error

\* C13: a run that is over ended Done or Failed with an error message, also when
\* a request got no answer: a rejected request counts as a failure of its item.
C13_RejectIsAFailure ==
    (pc = "idle" /\ outcome # "none") =>
        \/ outcome = "Done"
        \/ outcome = "Failed" /\ loadingMessage.error

\* C14: switchFavorite(id) and switchBookmark(id) change neither the record set
\* nor the storage when no entity has the id; else they flip that one flag of the
\* entity with the id, leave its other fields and every other entity as they
\* were, and persist the record set; the same toggle again gives the record set
\* back.
ToggleFrame(id, flag) ==
    IF id \notin IdsOf(books)
    THEN books' = books /\ stored' = stored
    ELSE /\ Len(books') = Len(books)
         /\ \E i \in 1..Len(books) :
               /\ books[i].id = id
               /\ books'[i].id = id
               /\ books'[i].name = books[i].name
               /\ books'[i].series = books[i].series
               /\ IF flag = "favorite"
                  THEN /\ books'[i].favorite = ~books[i].favorite
                       /\ books'[i].bookmark = books[i].bookmark
                       /\ [books' EXCEPT ![i] = FlipFavorite(@)] = books
                  ELSE /\ books'[i].bookmark = ~books[i].bookmark
                       /\ books'[i].favorite = books[i].favorite
                       /\ [books' EXCEPT ![i] = FlipBookmark(@)] = books
               /\ \A j \in 1..Len(books) : j # i => books'[j] = books[j]
         /\ stored' = books'

C14_ToggleFrame ==
    [][\A id \in Ids :
          /\ SwitchFavorite(id) => ToggleFrame(id, "favorite")
          /\ SwitchBookmark(id) => ToggleFrame(id, "bookmark")]_vars

C14_Witness ==
    /\ toggles = 1
    /\ pc = "pages"
    /\ Len(books) = 2
    /\ stored = books
    /\ \E i \in 1..Len(books) :
          Flags(books[i]) # Flags(MergeBook(books[i], originBooks))

\* C15: while a run is in flight the progress message does not carry the error
\* flag: the start of the run has reset whatever an earlier run left.
C15_NoStaleErrorInFlight ==
    pc # "idle" => ~loadingMessage.error

\* C16: once the listing stage is Done, the classification fetches of the run are
\* one per entity that came out of the merge with a null series, and no other: an
\* entity that kept a series, the empty string included, is not fetched and keeps
\* it; with no such entity there is no fetch and the run has ended Done.
NeedSeries ==
    {i \in 1..Len(books) : MergeBook(books[i], originBooks).series = null}
C16_EnrichmentInput ==
    ListingDone =>
        /\ mapper.pass = "series"
        /\ Len(mapper.inputs) = Cardinality(NeedSeries)
        /\ {mapper.inputs[i] : i \in 1..Len(mapper.inputs)} = NeedSeries
        /\ {e[2] : e \in SeriesFetches} \subseteq NeedSeries
        /\ Cardinality(SeriesFetches) = Cardinality({e[2] : e \in SeriesFetches})
        /\ \A i \in (1..Len(books)) \ NeedSeries :
              books[i].series = MergeBook(books[i], originBooks).series
        /\ NeedSeries = {} => (pc = "idle" /\ outcome = "Done" /\ SeriesFetches = {})

C16_Witness ==
    /\ pc = "idle"
    /\ outcome = "Done"
    /\ Len(books) = 2
    /\ Cardinality(SeriesFetches) = 1
    /\ \E i \in 1..Len(books) : i \notin NeedSeries /\ books[i].series = ""

\* C17: a classification fetch that failed is the failure of its item alone: the
\* run is not Failed and throws nothing, every entity whose fetch answered has its
\* series written and persisted, and the run that is over has ended complete, its
\* message cleared, every entity of the enrichment input having been fetched.
SeriesAnswered(answer) == {e[2] : e \in {f \in SeriesFetches : f[3] = answer}}
C17_SeriesFailureIsLocal ==
    SeriesAnswered("THROW") # {} =>
        /\ pc \in {"series", "idle"}
        /\ outcome \in {"running", "Done"}
        /\ stored = books
        /\ \A at \in SeriesAnswered("OK") : books[at].series = SeriesOf(books[at].id)
        /\ \A at \in SeriesAnswered("THROW") : books[at].series = null
        /\ pc = "idle" =>
              /\ loadingMessage = NoMessage
              /\ ~loading
              /\ SeriesAnswered(Pending) = {}
              /\ SeriesAnswered("OK") \cup SeriesAnswered("THROW") = NeedSeries

C17_Witness ==
    /\ pc = "idle"
    /\ outcome = "Done"
    /\ SeriesAnswered("THROW") # {}
    /\ SeriesAnswered("OK") # {}
    /\ \E i \in 1..Len(stored) : stored[i].series = "S"

\* C18: while the message shows "k / P" the run has had k - 1 answers of the
\* pages 2..P, and the record set holds the merged rows of page 1 and of the
\* pages that answered OK; while it shows "k / N", k classification fetches have
\* answered and the series of those that succeeded are written; in both cases
\* the persisted record set is the one in memory.
C18_ProgressReportsPersisted ==
    /\ loadingMessage.kind = "pages" =>
          /\ pc \in {"pages", "series"}
          /\ loadingMessage.n = pageCount
          /\ loadingMessage.k = 1 + Cardinality(PagesAnswered)
          /\ IdsOf(books) = ListedIds(remote, {1} \cup PagesOk)
          /\ stored = books
    /\ loadingMessage.kind = "series" =>
          /\ pc = "series"
          /\ loadingMessage.n = Len(mapper.inputs)
          /\ loadingMessage.k =
                Cardinality(SeriesAnswered("OK") \cup SeriesAnswered("THROW"))
          /\ \A at \in SeriesAnswered("OK") : books[at].series = SeriesOf(books[at].id)
          /\ stored = books

C18_Witness ==
    /\ loadingMessage = PageMessage(2, 3)
    /\ Answered("page", 3, "OK")
    /\ Len(stored) = 2

C19_OverlapDoesNotInterfere ==
    earlier # NoEarlier =>
        /\ NoDuplicateIds(books)
        /\ IdsOf(books) \subseteq
              ListedIds(remote, IF Page1Answer("OK") THEN {1} \cup PagesOk ELSE {})
        /\ IdsOf(earlier.originBooks) \cap ListedIds(remote, 1..Len(remote))
              \subseteq IdsOf(originBooks)

====
